---- MODULE Spec2Model ----
(***************************************************************************)
(* Model of the kitties pallet (lesson6/pallets/kitties/src/lib.rs):       *)
(* the Kitties / KittiesCount / OwnedKitties storage items, the linked     *)
(* list kept in OwnedKitties (append / remove) and the dispatchables       *)
(* create, breed and transfer.                                             *)
(*                                                                         *)
(* Option<X> is modelled as a sequence: None is <<>> and Some(x) is <<x>>. *)
(* A storage map is a function from its keys to Option<value>.             *)
(* The dispatchables are modelled by the writes their own code performs;   *)
(* the storage a call leaves behind is the storage at the point where the  *)
(* call returns.                                                           *)
(***************************************************************************)
EXTENDS Integers, Sequences, FiniteSets, TLC

\* ---------------------------------------------------------------- bounds
\* number of accounts (T::AccountId values) that make calls
NumAccounts == 2
\* T::KittyId::max_value() of the (bounded, unsigned) id type
MaxKittyId == 3
\* number of direct OwnedKitties::append calls explored in SpecIndex
MaxAppends == 3
\* number of transfer extrinsics explored in Spec
MaxTransfers == 2

\* length of a Kitty's dna, [u8; 16]
DnaLen == 16

Accounts == 1..NumAccounts
KittyIds == 0..MaxKittyId

None == <<>>
Some(x) == <<x>>
OptionKittyId == {None} \cup {Some(i) : i \in KittyIds}

\* struct KittyLinkedItem { prev, next }
KittyLinkedItem(p, n) == [prev |-> p, next |-> n]

\* ----------------------------------------------------------------- state
VARIABLES
  kitties,       \* Kitties: KittyId -> Option<Kitty>
  kittiesCount,  \* KittiesCount: KittyId
  owned,         \* OwnedKitties: (AccountId, Option<KittyId>) -> Option<KittyLinkedItem>
  last,          \* the call made by the last step
  removed,       \* history: per account, the ids removed from its list by a direct remove
  linked,        \* history: per account, the ids appended by a direct append and
                 \* not removed since, in append order
  appends,       \* history: the number of direct append calls made
  transfers      \* history: the number of transfer extrinsics made

vars == <<kitties, kittiesCount, owned, last, removed, linked, appends, transfers>>

\* ------------------------------------------------- OwnedKitties (the list)
\* fn read: the stored item, or {prev: None, next: None} when the key is absent
read(s, account, key) ==
  IF s[<<account, key>>] = None
    THEN KittyLinkedItem(None, None)
    ELSE s[<<account, key>>][1]

\* variant of write: the account is left out of the key
write_any_account(s, account, key, item) ==
  [k \in DOMAIN s |-> IF k[2] = key THEN Some(item) ELSE s[k]]

\* fn write: insert at (account, key)
write(s, account, key, item) ==
  [s EXCEPT ![<<account, key>>] = Some(item)]

read_head(s, account) == read(s, account, None)

write_head(s, account, item) == write(s, account, None, item)

\* StorageMap::take / StorageMap::remove: the storage left once the key is deleted
take(s, account, key) == [s EXCEPT ![<<account, key>>] = None]

\* variant of append: the item at head.prev is the one read before the head
\* was written
append_stale_prev(s, account, kitty_id) ==
  LET head     == read_head(s, account)
      new_head == KittyLinkedItem(Some(kitty_id), head.next)
      s1       == write_head(s, account, new_head)
      prev     == read(s, account, head.prev)
      new_prev == KittyLinkedItem(prev.prev, Some(kitty_id))
      s2       == write(s1, account, head.prev, new_prev)
      item     == KittyLinkedItem(head.prev, None)
  IN  write(s2, account, Some(kitty_id), item)

\* variant of append: the new item is linked in after the head, as the first
\* of the list
append_as_first(s, account, kitty_id) ==
  LET head     == read_head(s, account)
      new_head == KittyLinkedItem(head.prev, Some(kitty_id))
      s1       == write_head(s, account, new_head)
      next     == read(s1, account, head.next)
      new_next == KittyLinkedItem(Some(kitty_id), next.next)
      s2       == write(s1, account, head.next, new_next)
      item     == KittyLinkedItem(None, head.next)
  IN  write(s2, account, Some(kitty_id), item)

\* variant of append: the new sentinel does not keep head.next
append_drop_head_next(s, account, kitty_id) ==
  LET head     == read_head(s, account)
      new_head == KittyLinkedItem(Some(kitty_id), None)
      s1       == write_head(s, account, new_head)
      prev     == read(s1, account, head.prev)
      new_prev == KittyLinkedItem(prev.prev, Some(kitty_id))
      s2       == write(s1, account, head.prev, new_prev)
      item     == KittyLinkedItem(head.prev, None)
  IN  write(s2, account, Some(kitty_id), item)

\* variant of append: the new node does not point back at the old tail
append_no_prev_link(s, account, kitty_id) ==
  LET head     == read_head(s, account)
      new_head == KittyLinkedItem(Some(kitty_id), head.next)
      s1       == write_head(s, account, new_head)
      prev     == read(s1, account, head.prev)
      new_prev == KittyLinkedItem(prev.prev, Some(kitty_id))
      s2       == write(s1, account, head.prev, new_prev)
      item     == KittyLinkedItem(None, None)
  IN  write(s2, account, Some(kitty_id), item)

\* pub fn append
append(s, account, kitty_id) ==
  LET head     == read_head(s, account)
      new_head == KittyLinkedItem(Some(kitty_id), head.next)
      s1       == write_head(s, account, new_head)
      prev     == read(s1, account, head.prev)
      new_prev == KittyLinkedItem(prev.prev, Some(kitty_id))
      s2       == write(s1, account, head.prev, new_prev)
      item     == KittyLinkedItem(head.prev, None)
  IN  write(s2, account, Some(kitty_id), item)

\* variant of remove: the item before the removed one is left as it is
remove_no_prev_fix(s, account, kitty_id) ==
  IF s[<<account, Some(kitty_id)>>] = None THEN s
  ELSE LET item     == s[<<account, Some(kitty_id)>>][1]
           s1       == take(s, account, Some(kitty_id))
           next     == read(s1, account, item.next)
           new_next == KittyLinkedItem(item.prev, next.next)
       IN  write(s1, account, item.next, new_next)

\* variant of remove: the successor (or the sentinel) is not rewritten
remove_no_next_fix(s, account, kitty_id) ==
  IF s[<<account, Some(kitty_id)>>] = None
    THEN s
    ELSE
      LET item     == s[<<account, Some(kitty_id)>>][1]
          s1       == take(s, account, Some(kitty_id))
          prev     == read(s1, account, item.prev)
          new_prev == KittyLinkedItem(prev.prev, item.next)
      IN  write(s1, account, item.prev, new_prev)

\* variant of remove: the item is fetched with read, without the `if let Some`
remove_unguarded(s, account, kitty_id) ==
  LET item     == read(s, account, Some(kitty_id))
      s1       == take(s, account, Some(kitty_id))
      prev     == read(s1, account, item.prev)
      new_prev == KittyLinkedItem(prev.prev, item.next)
      s2       == write(s1, account, item.prev, new_prev)
      next     == read(s2, account, item.next)
      new_next == KittyLinkedItem(item.prev, next.next)
  IN  write(s2, account, item.next, new_next)

\* pub fn remove
remove(s, account, kitty_id) ==
  IF s[<<account, Some(kitty_id)>>] = None
    THEN s
    ELSE
      LET item     == s[<<account, Some(kitty_id)>>][1]
          s1       == take(s, account, Some(kitty_id))
          prev     == read(s1, account, item.prev)
          new_prev == KittyLinkedItem(prev.prev, item.next)
          s2       == write(s1, account, item.prev, new_prev)
          next     == read(s2, account, item.next)
          new_next == KittyLinkedItem(item.prev, next.next)
      IN  write(s2, account, item.next, new_next)

\* ------------------------------------------------------------ dna mixing
\* bit k of a u8, k given by its weight 1, 2, 4, ..., 128
Bit(x, w) == (x \div w) % 2

\* the weights of the bits of a u8
BitWeights == {1, 2, 4, 8, 16, 32, 64, 128}

\* the u8 whose bit of weight w is set exactly when w is in ws
FromBits(ws) ==
  (IF 1 \in ws THEN 1 ELSE 0) + (IF 2 \in ws THEN 2 ELSE 0)
  + (IF 4 \in ws THEN 4 ELSE 0) + (IF 8 \in ws THEN 8 ELSE 0)
  + (IF 16 \in ws THEN 16 ELSE 0) + (IF 32 \in ws THEN 32 ELSE 0)
  + (IF 64 \in ws THEN 64 ELSE 0) + (IF 128 \in ws THEN 128 ELSE 0)

\* u8 & u8
BitAnd(x, y) == FromBits({w \in BitWeights : Bit(x, w) = 1 /\ Bit(y, w) = 1})

\* u8 | u8
BitOr(x, y) == FromBits({w \in BitWeights : Bit(x, w) = 1 \/ Bit(y, w) = 1})

\* !u8
BitNot(x) == 255 - x

\* variant of combine_dna: the two parents exchanged
combine_dna_swapped(dna1, dna2, selector) ==
  BitOr(BitAnd(selector, dna2), BitAnd(BitNot(selector), dna1))

\* fn combine_dna
combine_dna(dna1, dna2, selector) ==
  BitOr(BitAnd(selector, dna1), BitAnd(BitNot(selector), dna2))

\* fn random_value: a blake2_128 hash of (random seed, sender, extrinsic index);
\* the seed and the extrinsic index belong to the runtime, so the value is an
\* input of the call, drawn from these samples
\* (one sample: no operation of the module branches on a dna)
RandomValues ==
  { [i \in 1..DnaLen |-> (37 * i) % 256] }

\* ------------------------------------------------------------ the module
Ok(v) == [ok |-> TRUE, val |-> v, err |-> "Ok"]
Err(e) == [ok |-> FALSE, val |-> 0, err |-> e]

\* the three storage items, as one value
Storage(k, c, o) == [kitties |-> k, count |-> c, owned |-> o]

\* variant of next_kitty_id: the count is refused only above the maximum
next_kitty_id_above_max(count) ==
  IF count > MaxKittyId THEN Err("KittiesCountOverflow") ELSE Ok(count)

\* variant of next_kitty_id: no comparison with max_value()
next_kitty_id_unchecked(count) == Ok(count)

\* fn next_kitty_id
next_kitty_id(count) ==
  IF count = MaxKittyId
    THEN Err("KittiesCountOverflow")
    ELSE Ok(count)

\* fn insert_owned_kitty
insert_owned_kitty(o, owner, kitty_id) == append(o, owner, kitty_id)

\* variant of insert_kitty: KittiesCount is put back as kitty_id
insert_kitty_same_count(st, owner, kitty_id, kitty) ==
  Storage([st.kitties EXCEPT ![kitty_id] = Some(kitty)],
          kitty_id,
          insert_owned_kitty(st.owned, owner, kitty_id))

\* fn insert_kitty; kitty_id + 1 is computed in the id type
insert_kitty(st, owner, kitty_id, kitty) ==
  Storage([st.kitties EXCEPT ![kitty_id] = Some(kitty)],
          (kitty_id + 1) % (MaxKittyId + 1),
          insert_owned_kitty(st.owned, owner, kitty_id))

\* pub fn create
create(st, sender, dna) ==
  LET new_kitty_id == next_kitty_id(st.count)
  IN  IF ~new_kitty_id.ok
        THEN [st |-> st, result |-> new_kitty_id.err]
        ELSE [st |-> insert_kitty(st, sender, new_kitty_id.val, dna),
              result |-> "Ok"]

\* variant of do_breed: the two parents are not compared
do_breed_same_parent(st, sender, kitty_id_1, kitty_id_2, selector) ==
  IF st.kitties[kitty_id_1] = None
    THEN [st |-> st, result |-> "InvalidKittyId"]
  ELSE IF st.kitties[kitty_id_2] = None
    THEN [st |-> st, result |-> "InvalidKittyId"]
  ELSE
    LET kitty_id   == next_kitty_id(st.count)
        kitty1_dna == st.kitties[kitty_id_1][1]
        kitty2_dna == st.kitties[kitty_id_2][1]
        new_dna    == [i \in 1..DnaLen |->
                         combine_dna(kitty1_dna[i], kitty2_dna[i], selector[i])]
    IN  IF ~kitty_id.ok
          THEN [st |-> st, result |-> kitty_id.err]
          ELSE [st |-> insert_kitty(st, sender, kitty_id.val, new_dna),
                result |-> "Ok"]

\* fn do_breed
do_breed(st, sender, kitty_id_1, kitty_id_2, selector) ==
  IF st.kitties[kitty_id_1] = None
    THEN [st |-> st, result |-> "InvalidKittyId"]
  ELSE IF st.kitties[kitty_id_2] = None
    THEN [st |-> st, result |-> "InvalidKittyId"]
  ELSE IF kitty_id_1 = kitty_id_2
    THEN [st |-> st, result |-> "RequireDifferentParent"]
  ELSE
    LET kitty_id   == next_kitty_id(st.count)
        kitty1_dna == st.kitties[kitty_id_1][1]
        kitty2_dna == st.kitties[kitty_id_2][1]
        new_dna    == [i \in 1..DnaLen |->
                         combine_dna(kitty1_dna[i], kitty2_dna[i], selector[i])]
    IN  IF ~kitty_id.ok
          THEN [st |-> st, result |-> kitty_id.err]
          ELSE [st |-> insert_kitty(st, sender, kitty_id.val, new_dna),
                result |-> "Ok"]

\* pub fn breed
breed(st, sender, kitty_id_1, kitty_id_2, selector) ==
  do_breed(st, sender, kitty_id_1, kitty_id_2, selector)

\* variant of the ensure! condition: any taken item passes
owner_check_take_only(item) == TRUE

\* the condition of the ensure! in transfer
owner_check(item) == item.prev # None \/ item.next # None

\* pub fn transfer: the take comes before the ensure!, so the storage left by a
\* rejected call is the storage without the taken node; a call whose take
\* returns None skips the ensure!
transfer(st, sender, to, kitty_id) ==
  LET taken == st.owned[<<sender, Some(kitty_id)>>]
      o1    == take(st.owned, sender, Some(kitty_id))
  IN  IF taken # None /\ ~owner_check(taken[1])
        THEN [st |-> Storage(st.kitties, st.count, o1),
              result |-> "RequireOwner"]
        ELSE [st |-> Storage(st.kitties, st.count,
                             remove(append(o1, to, kitty_id), sender, kitty_id)),
              result |-> "Ok"]

\* ----------------------------------------------------------- the actions
\* what `last` keeps of a call: the operation, its result, and what its take
\* of (account, Some(kitty_id)) returned (None for a call that takes nothing)
Call(op, result, taken) == [op |-> op, result |-> result, taken |-> taken]

Range(q) == {q[i] : i \in 1..Len(q)}

Without(q, id) == SelectSeq(q, LAMBDA x : x # id)

\* genesis storage: every map empty, KittiesCount at its default
Init ==
  /\ kitties = [i \in KittyIds |-> None]
  /\ kittiesCount = 0
  /\ owned = [k \in Accounts \X OptionKittyId |-> None]
  /\ last = Call("init", "Ok", None)
  /\ removed = [a \in Accounts |-> {}]
  /\ linked = [a \in Accounts |-> <<>>]
  /\ appends = 0
  /\ transfers = 0

Current == Storage(kitties, kittiesCount, owned)

Commit(r) ==
  /\ kitties' = r.st.kitties
  /\ kittiesCount' = r.st.count
  /\ owned' = r.st.owned

\* a signed create extrinsic
Create ==
  \E sender \in Accounts, dna \in RandomValues :
    \E r \in {create(Current, sender, dna)} :
        /\ Commit(r)
        /\ last' = Call("create", r.result, None)
        /\ UNCHANGED <<removed, linked, appends, transfers>>

\* a signed breed extrinsic
Breed ==
  \E sender \in Accounts, kitty_id_1 \in KittyIds, kitty_id_2 \in KittyIds,
     selector \in RandomValues :
    \E r \in {breed(Current, sender, kitty_id_1, kitty_id_2, selector)} :
        /\ Commit(r)
        /\ last' = Call("breed", r.result, None)
        /\ UNCHANGED <<removed, linked, appends, transfers>>

\* a signed transfer extrinsic
Transfer ==
  \E sender \in Accounts, to \in Accounts, kitty_id \in KittyIds :
    /\ transfers < MaxTransfers
    /\ \E r \in {transfer(Current, sender, to, kitty_id)} :
        /\ Commit(r)
        /\ last' = Call("transfer", r.result, owned[<<sender, Some(kitty_id)>>])
        /\ transfers' = transfers + 1
        /\ UNCHANGED <<removed, linked, appends>>

Next == Create \/ Breed \/ Transfer

Spec == Init /\ [][Next]_vars

\* OwnedKitties::append called directly, as the unit tests do, with an id
\* that is not in the account's list
CallAppend ==
  \E account \in Accounts, kitty_id \in KittyIds :
    /\ appends < MaxAppends
    /\ kitty_id \notin Range(linked[account])
    /\ owned' = append(owned, account, kitty_id)
    /\ last' = Call("append", "Ok", None)
    /\ linked' = [linked EXCEPT ![account] = @ \o <<kitty_id>>]
    /\ appends' = appends + 1
    /\ UNCHANGED <<kitties, kittiesCount, removed, transfers>>

\* OwnedKitties::remove called directly
CallRemove ==
  \E account \in Accounts, kitty_id \in KittyIds :
    /\ owned' = remove(owned, account, kitty_id)
    /\ last' = Call("remove", "Ok", owned[<<account, Some(kitty_id)>>])
    /\ removed' = [removed EXCEPT ![account] =
                     IF kitty_id \in Range(linked[account])
                       THEN @ \cup {kitty_id} ELSE @]
    /\ linked' = [linked EXCEPT ![account] = Without(@, kitty_id)]
    /\ UNCHANGED <<kitties, kittiesCount, appends, transfers>>

NextIndex == CallAppend \/ CallRemove

SpecIndex == Init /\ [][NextIndex]_vars

\* values random_value can return, for the calls of the specification below:
\* byte i of sample m is (m * i) mod 256
DnaSamples == {[i \in 1..DnaLen |-> (m * i) % 256] : m \in {37, 101}}

\* a signed create extrinsic whose random_value is any of DnaSamples
CreateDna ==
  \E sender \in Accounts, dna \in DnaSamples :
    \E r \in {create(Current, sender, dna)} :
        /\ Commit(r)
        /\ last' = Call("create", r.result, None)
        /\ UNCHANGED <<removed, linked, appends, transfers>>

\* a signed breed extrinsic whose selector is any of DnaSamples
BreedDna ==
  \E sender \in Accounts, kitty_id_1 \in KittyIds, kitty_id_2 \in KittyIds,
     selector \in DnaSamples :
    \E r \in {breed(Current, sender, kitty_id_1, kitty_id_2, selector)} :
        /\ Commit(r)
        /\ last' = Call("breed", r.result, None)
        /\ UNCHANGED <<removed, linked, appends, transfers>>

NextDna == CreateDna \/ BreedDna

SpecDna == Init /\ [][NextDna]_vars

\* ------------------------------------------------------ reading a list
RECURSIVE Walk(_, _, _, _, _)
\* the ids met by following `dir` pointers from the item at `key`, each item
\* fetched with read, until the pointer is None; `fuel` bounds the walk, so
\* that a cycle gives a sequence longer than any list of distinct ids
Walk(s, account, key, dir, fuel) ==
  LET item == read(s, account, key)
      ptr  == IF dir = "next" THEN item.next ELSE item.prev
  IN  IF ptr = None \/ fuel = 0
        THEN <<>>
        ELSE <<ptr[1]>> \o Walk(s, account, ptr, dir, fuel - 1)

WalkNext(s, account) == Walk(s, account, None, "next", MaxKittyId + 2)

WalkPrev(s, account) == Walk(s, account, None, "prev", MaxKittyId + 2)

Reverse(q) == [i \in 1..Len(q) |-> q[Len(q) + 1 - i]]

Distinct(q) == \A i, j \in 1..Len(q) : i # j => q[i] # q[j]

\* the item the list q gives to its element number i
ItemAt(q, i) ==
  KittyLinkedItem(IF i = 1 THEN None ELSE Some(q[i - 1]),
                  IF i = Len(q) THEN None ELSE Some(q[i + 1]))

\* ----------------------------------------------------------------- C1
\* C1: ids a1..an appended, in that order, to an account whose list was empty
\* (and nothing removed from it): walking next from the sentinel visits
\* a1, ..., an and stops, walking prev visits an, ..., a1 and stops; the
\* sentinel is {prev: Some(an), next: Some(a1)} and the node of ai is
\* {prev: a(i-1) or None, next: a(i+1) or None}.
C1_AppendOrder ==
  \A a \in Accounts :
    (removed[a] = {} /\ linked[a] # <<>>) =>
      LET q == linked[a]
      IN  /\ WalkNext(owned, a) = q
          /\ WalkPrev(owned, a) = Reverse(q)
          /\ owned[<<a, None>>] = Some(KittyLinkedItem(Some(q[Len(q)]), Some(q[1])))
          /\ \A i \in 1..Len(q) : owned[<<a, Some(q[i])>>] = Some(ItemAt(q, i))

\* 1, 2, 3 appended to one account and nothing removed from it, the last
\* call being an append
C1_Witness ==
  /\ last.op = "append"
  /\ \E a \in Accounts :
       /\ linked[a] = <<1, 2, 3>>
       /\ removed[a] = {}
       /\ owned[<<a, Some(2)>>] = Some(KittyLinkedItem(Some(1), Some(3)))

\* ----------------------------------------------------------------- C2
\* C2: for a list built by appending distinct ids A to one account, with the
\* ids of R removed in any order (and not appended again): walking next yields
\* the ids of A not in R in append order, walking prev yields the reverse,
\* and no node is stored for an id of R.
C2_RemovalKeepsOrder ==
  \A a \in Accounts :
    (removed[a] \cap Range(linked[a]) = {}) =>
      /\ WalkNext(owned, a) = linked[a]
      /\ WalkPrev(owned, a) = Reverse(linked[a])
      /\ \A id \in removed[a] : owned[<<a, Some(id)>>] = None

\* an account with two ids left in its list after a removal of its head, of
\* an interior id or of its tail, the last call being a removal that took a node
C2_Witness ==
  /\ last.op = "remove"
  /\ last.taken # None
  /\ \E a \in Accounts :
       /\ Len(linked[a]) = 2
       /\ removed[a] # {}
       /\ removed[a] \cap Range(linked[a]) = {}
       /\ WalkNext(owned, a) = linked[a]

\* ----------------------------------------------------------------- C7
\* C7: after any sequence of append calls (each with an id not in the
\* account's list) and remove calls, the account's nodes form a consistent
\* doubly-linked list: a node is stored for an id exactly when the id was
\* appended and not removed since; the prev of a stored node n names a stored
\* node whose next is n, or is None and the sentinel's next is n; the next of
\* n names a stored node whose prev is n, or is None and the sentinel's prev
\* is n.
C7_ListConsistent ==
  \A a \in Accounts :
    \A n \in KittyIds :
      /\ (owned[<<a, Some(n)>>] # None) <=> (n \in Range(linked[a]))
      /\ owned[<<a, Some(n)>>] # None =>
           LET item == owned[<<a, Some(n)>>][1]
           IN  /\ IF item.prev # None
                    THEN /\ owned[<<a, item.prev>>] # None
                         /\ owned[<<a, item.prev>>][1].next = Some(n)
                    ELSE read_head(owned, a).next = Some(n)
               /\ IF item.next # None
                    THEN /\ owned[<<a, item.next>>] # None
                         /\ owned[<<a, item.next>>][1].prev = Some(n)
                    ELSE read_head(owned, a).prev = Some(n)

\* an id removed from a list and appended to it again, behind another id
C7_Witness ==
  /\ last.op = "append"
  /\ \E a \in Accounts :
       /\ Len(linked[a]) = 2
       /\ linked[a][2] \in removed[a]
       /\ owned[<<a, Some(linked[a][2])>>]
            = Some(KittyLinkedItem(Some(linked[a][1]), None))

\* ----------------------------------------------------------------- C8
\* C8: remove(O, id), called when no node is stored at (O, Some(id)), leaves
\* every stored value as it is: O's sentinel (absent if never written), O's
\* nodes and every other account's.
C8_RemoveAbsentIsNoOp ==
  \A a \in Accounts, id \in KittyIds :
    owned[<<a, Some(id)>>] = None => remove(owned, a, id) = owned

\* a remove that took nothing has been made while a list is not empty and
\* another account's sentinel was never written
C8_Witness ==
  /\ last.op = "remove"
  /\ last.taken = None
  /\ \E a, b \in Accounts :
       /\ linked[a] # <<>>
       /\ owned[<<b, None>>] = None

\* ----------------------------------------------------------------- C9
\* C9: for two different accounts O1 and O2 and any id, append(O1, id) and
\* remove(O1, id) leave every value stored under a key (O2, _) as it is, also
\* when id is linked in O2's list.
C9_OtherOwnersUntouched ==
  \A o1 \in Accounts, id \in KittyIds :
    \A appended \in {append(owned, o1, id)}, taken \in {remove(owned, o1, id)} :
      \A o2 \in Accounts \ {o1}, k \in OptionKittyId :
        /\ appended[<<o2, k>>] = owned[<<o2, k>>]
        /\ taken[<<o2, k>>] = owned[<<o2, k>>]

\* the same id is linked in the lists of two accounts, the last call being
\* an append
C9_Witness ==
  /\ last.op = "append"
  /\ \E o1, o2 \in Accounts :
       /\ o1 # o2
       /\ linked[o1] # <<>>
       /\ linked[o1][Len(linked[o1])] \in Range(linked[o2])
       /\ owned[<<o1, Some(linked[o1][Len(linked[o1])])>>] # None
       /\ owned[<<o2, Some(linked[o1][Len(linked[o1])])>>] # None

\* ----------------------------------------------------------------- C3
\* C3: transfer(from, to, id), called when no link node is stored at
\* (from, Some(id)), fails with RequireOwner and leaves every stored value
\* as it is: the link nodes and sentinels of every account, the kitties and
\* the count.
C3_NonOwnerTransferFails ==
  [][(last'.op = "transfer" /\ last'.taken = None) =>
       /\ last'.result = "RequireOwner"
       /\ UNCHANGED <<kitties, kittiesCount, owned>>]_vars

\* ----------------------------------------------------------------- C4
\* C4: whenever transfer(from, to, id) with from # to returns success,
\* walking next from from's sentinel afterwards yields from's previous list
\* without id, the other ids in unchanged order, and walking next from to's
\* sentinel yields to's previous list followed by id.
C4_TransferMovesId ==
  \A sender, to \in Accounts, id \in KittyIds :
    LET r == transfer(Current, sender, to, id)
    IN  (sender # to /\ r.result = "Ok") =>
          /\ WalkNext(r.st.owned, sender) = Without(WalkNext(owned, sender), id)
          /\ WalkNext(r.st.owned, to) = WalkNext(owned, to) \o <<id>>

\* ----------------------------------------------------------------- C5
\* C5: in every state reachable by create, breed and transfer calls, each id
\* has a link node (O, Some(id)) under at most one account O, and each id
\* that has been created has one under exactly one account.
C5_OneOwnerPerKitty ==
  \A id \in KittyIds :
    LET owners == {a \in Accounts : owned[<<a, Some(id)>>] # None}
    IN  /\ Cardinality(owners) <= 1
        /\ kitties[id] # None => Cardinality(owners) = 1

\* ----------------------------------------------------------------- C6
\* C6: transfer(from, to, id), called when the link node of id under from has
\* prev = None and next = None (id is the only entity in from's list), is
\* rejected with RequireOwner.
C6_SoleEntityTransferRejected ==
  \A sender, to \in Accounts, id \in KittyIds :
    owned[<<sender, Some(id)>>] = Some(KittyLinkedItem(None, None)) =>
      transfer(Current, sender, to, id).result = "RequireOwner"

\* a transfer that took the node {prev: None, next: None} of a created kitty
\* has been rejected
C6_Witness ==
  /\ last.op = "transfer"
  /\ last.taken = Some(KittyLinkedItem(None, None))
  /\ last.result = "RequireOwner"
  /\ kittiesCount > 0

\* ---------------------------------------------------------------- C10
\* C10: create(owner), and breed(owner, idA, idB) with two existing distinct
\* parents, called when KittiesCount equals the maximum of the id type, fail
\* with KittiesCountOverflow and leave all storage as it is: no kitty
\* written, the count, every link node and every sentinel unchanged.
C10_OverflowRejected ==
  kittiesCount = MaxKittyId =>
    /\ \A sender \in Accounts, dna \in RandomValues :
         create(Current, sender, dna)
           = [st |-> Current, result |-> "KittiesCountOverflow"]
    /\ \A sender \in Accounts, idA \in KittyIds, idB \in KittyIds,
          selector \in RandomValues :
         (idA # idB /\ kitties[idA] # None /\ kitties[idB] # None) =>
           breed(Current, sender, idA, idB, selector)
             = [st |-> Current, result |-> "KittiesCountOverflow"]

\* a breed has failed with KittiesCountOverflow, the count being at the
\* maximum of the id type
C10_Witness ==
  /\ last.op = "breed"
  /\ last.result = "KittiesCountOverflow"
  /\ kittiesCount = MaxKittyId

\* ---------------------------------------------------------------- C11
\* C11 as stated: breed(owner, idA, idA) fails with RequireDifferentParent and
\* leaves the count, the kitties and every list as they are, for every id
\* value idA, stored or not.
C11_SameParentForEveryId ==
  \A sender \in Accounts, idA \in KittyIds, selector \in RandomValues :
    breed(Current, sender, idA, idA, selector)
      = [st |-> Current, result |-> "RequireDifferentParent"]

\* C11 amended: breed(owner, idA, idA) fails with RequireDifferentParent when a
\* kitty is stored for idA and with InvalidKittyId when none is (the parents
\* are looked up before they are compared); either way the count, the
\* kitties and every list are left as they are.
C11_SameParentRejected ==
  \A sender \in Accounts, idA \in KittyIds, selector \in RandomValues :
    breed(Current, sender, idA, idA, selector)
      = [st |-> Current,
         result |-> IF kitties[idA] # None THEN "RequireDifferentParent"
                                           ELSE "InvalidKittyId"]

\* a breed has been rejected with RequireDifferentParent while a further id
\* was still free to allocate
C11_Witness ==
  /\ last.op = "breed"
  /\ last.result = "RequireDifferentParent"
  /\ kittiesCount > 0
  /\ kittiesCount < MaxKittyId

\* ---------------------------------------------------------------- C12
\* C12: KittiesCount starts at 0 and never decreases; a successful create or
\* breed raises it by exactly 1 and stores a kitty at the id that was the
\* count before the call, an id that had none, leaving every other kitty as
\* it is; a transfer and a failed call leave the count and the kitties as
\* they are; and in every reachable state a kitty is stored for id exactly
\* when id < KittiesCount.
C12_CountIsNextId ==
  /\ kittiesCount = 0
  /\ [](\A id \in KittyIds : kitties[id] # None <=> id < kittiesCount)
  /\ [][/\ kittiesCount' >= kittiesCount
         /\ IF last'.op \in {"create", "breed"} /\ last'.result = "Ok"
              THEN /\ kittiesCount' = kittiesCount + 1
                   /\ kitties[kittiesCount] = None
                   /\ kitties'[kittiesCount] # None
                   /\ \A id \in KittyIds \ {kittiesCount} :
                        kitties'[id] = kitties[id]
              ELSE UNCHANGED <<kittiesCount, kitties>>]_vars

\* three ids have been given out, the last one by a breed, with a transfer
\* among the calls
C12_Witness ==
  /\ last.op = "breed"
  /\ last.result = "Ok"
  /\ kittiesCount = 3
  /\ transfers > 0
  /\ \A id \in 0..2 : kitties[id] # None

\* ---------------------------------------------------------------- C13
\* C13: for every two stored parents and every selector, a successful
\* breed(owner, idA, idB) stores for the new id a dna of which, in each of the
\* 16 bytes and at each of the 8 bit positions, the bit is parent idA's bit
\* where the selector's bit is 1 and parent idB's bit where it is 0; that is,
\* (selector AND dnaA) OR (NOT selector AND dnaB) bit by bit.
C13_BredDnaPerBit ==
  \A sender \in Accounts, idA \in KittyIds, idB \in KittyIds,
     selector \in DnaSamples :
    \A r \in {breed(Current, sender, idA, idB, selector)} :
      r.result = "Ok" =>
        \A i \in 1..DnaLen, w \in BitWeights :
          LET bit  == Bit(r.st.kitties[kittiesCount][1][i], w)
              sel  == Bit(selector[i], w)
              dnaA == Bit(kitties[idA][1][i], w)
              dnaB == Bit(kitties[idB][1][i], w)
          IN  /\ bit = IF sel = 1 THEN dnaA ELSE dnaB
              /\ bit = 1 <=> ((sel = 1 /\ dnaA = 1) \/ (sel = 0 /\ dnaB = 1))

\* a breed has stored a dna that is none of the created ones: a mix of its
\* two parents
C13_Witness ==
  /\ last.op = "breed"
  /\ last.result = "Ok"
  /\ kittiesCount > 0
  /\ kitties[kittiesCount - 1] # None
  /\ kitties[kittiesCount - 1][1] \notin DnaSamples

\* ---------------------------------------------------------------- C14
\* C14: a successful breed(owner, idA, idB) leaves the new id, which is the
\* count before the call, as the tail of the caller's list: the caller's
\* sentinel has prev = Some(new id), the new id's node under the caller has
\* next = None and has as prev what the sentinel's prev was; this whichever
\* accounts hold idA and idB; and no sentinel and no node of any other account
\* is changed.
C14_BredKittyGoesToCaller ==
  \A sender \in Accounts, idA \in KittyIds, idB \in KittyIds,
     selector \in RandomValues :
    \A r \in {breed(Current, sender, idA, idB, selector)} :
      r.result = "Ok" =>
        /\ r.st.owned[<<sender, None>>] # None
        /\ r.st.owned[<<sender, None>>][1].prev = Some(kittiesCount)
        /\ r.st.owned[<<sender, Some(kittiesCount)>>]
             = Some(KittyLinkedItem(read_head(owned, sender).prev, None))
        /\ \A a \in Accounts \ {sender}, key \in OptionKittyId :
             r.st.owned[<<a, key>>] = owned[<<a, key>>]

\* with no transfer made, account b holds kitties 0 and 1 and account a, who
\* holds neither, has bred them: kitty 2 is the tail of a's list
C14_Witness ==
  /\ last.op = "breed"
  /\ last.result = "Ok"
  /\ transfers = 0
  /\ kittiesCount = 3
  /\ \E a, b \in Accounts :
       /\ a # b
       /\ owned[<<b, Some(0)>>] # None
       /\ owned[<<b, Some(1)>>] # None
       /\ owned[<<a, Some(0)>>] = None
       /\ owned[<<a, Some(1)>>] = None
       /\ owned[<<a, None>>] = Some(KittyLinkedItem(Some(2), Some(2)))

\* ---------------------------------------------------------------- C15
\* C15: when id is the only element of O's list, its node is
\* {prev: None, next: None}, and remove(O, id) leaves O's sentinel stored as
\* {prev: None, next: None} and no node at (O, Some(id)); in particular
\* append(O, id) on an empty list followed by remove(O, id) ends so.
C15_RemoveSoleElement ==
  /\ \A o \in Accounts, id \in KittyIds :
       linked[o] = <<id>> =>
         /\ owned[<<o, Some(id)>>] = Some(KittyLinkedItem(None, None))
         /\ \A s \in {remove(owned, o, id)} :
              /\ s[<<o, None>>] = Some(KittyLinkedItem(None, None))
              /\ s[<<o, Some(id)>>] = None
  /\ \A o \in Accounts, id \in KittyIds :
       linked[o] = <<>> =>
         \A s \in {remove(append(owned, o, id), o, id)} :
           /\ s[<<o, None>>] = Some(KittyLinkedItem(None, None))
           /\ s[<<o, Some(id)>>] = None

\* a list that had two elements has lost both, the second as the sole
\* remaining one: the sentinel is stored as {prev: None, next: None} and the
\* account has no node
C15_Witness ==
  /\ last.op = "remove"
  /\ last.taken = Some(KittyLinkedItem(None, None))
  /\ \E o \in Accounts :
       /\ Cardinality(removed[o]) >= 2
       /\ linked[o] = <<>>
       /\ owned[<<o, None>>] = Some(KittyLinkedItem(None, None))
       /\ \A id \in KittyIds : owned[<<o, Some(id)>>] = None

\* ---------------------------------------------------------------- C16
\* C16: in every call of create, breed and transfer, from any reachable state
\* and by any caller, append(O, id) is invoked only when no node is stored at
\* (O, Some(id)). create and breed invoke it, on the storage they were called
\* in, exactly when they succeed; transfer invokes it, on the storage left by
\* its take, exactly when it succeeds.
C16_AppendOnlyAbsentId ==
  /\ \A sender \in Accounts, dna \in RandomValues :
       create(Current, sender, dna).result = "Ok" =>
         owned[<<sender, Some(kittiesCount)>>] = None
  /\ \A sender \in Accounts, idA \in KittyIds, idB \in KittyIds,
        selector \in RandomValues :
       breed(Current, sender, idA, idB, selector).result = "Ok" =>
         owned[<<sender, Some(kittiesCount)>>] = None
  /\ \A sender \in Accounts, to \in Accounts, id \in KittyIds :
       transfer(Current, sender, to, id).result = "Ok" =>
         take(owned, sender, Some(id))[<<to, Some(id)>>] = None

\* ---------------------------------------------------------------- C17
\* C17: append(O, id) on an empty list, whether O's sentinel was never written
\* or is stored as {prev: None, next: None} after removals, ends with the
\* sentinel {prev: Some(id), next: Some(id)} and the node of id
\* {prev: None, next: None}: the read of the key (O, None) that follows the
\* write of the head returns the head just written.
C17_AppendOnEmptyList ==
  \A o \in Accounts, id \in KittyIds :
    linked[o] = <<>> =>
      /\ owned[<<o, None>>] \in {None, Some(KittyLinkedItem(None, None))}
      /\ owned[<<o, None>>] = None <=> removed[o] = {}
      /\ \A s \in {append(owned, o, id)} :
           /\ s[<<o, None>>] = Some(KittyLinkedItem(Some(id), Some(id)))
           /\ s[<<o, Some(id)>>] = Some(KittyLinkedItem(None, None))
           /\ read(write_head(owned, o, KittyLinkedItem(Some(id), None)),
                   o, read_head(owned, o).prev)
                = KittyLinkedItem(Some(id), None)

\* an append has just been made on a list emptied by removals, whose sentinel
\* was stored as {prev: None, next: None}, while another account's sentinel
\* was never written
C17_Witness ==
  /\ last.op = "append"
  /\ \E o \in Accounts, id \in KittyIds :
       /\ removed[o] # {}
       /\ linked[o] = <<id>>
       /\ owned[<<o, None>>] = Some(KittyLinkedItem(Some(id), Some(id)))
       /\ owned[<<o, Some(id)>>] = Some(KittyLinkedItem(None, None))
  /\ \E o \in Accounts : owned[<<o, None>>] = None

\* ---------------------------------------------------------------- C18
\* C18: with M the maximum of the id type, KittiesCount never exceeds M, no
\* kitty is ever stored for the id M, and every create and breed that
\* succeeds is called with the count below M, so that the kitty_id + 1 it
\* stores as the new count is the exact sum, not a wrapped one.
C18_CountBelowMax ==
  /\ kittiesCount <= MaxKittyId
  /\ kitties[MaxKittyId] = None
  /\ \A sender \in Accounts, dna \in RandomValues :
       \A r \in {create(Current, sender, dna)} :
         r.result = "Ok" =>
           /\ kittiesCount + 1 <= MaxKittyId
           /\ r.st.count = kittiesCount + 1
           /\ r.st.kitties[MaxKittyId] = None
  /\ \A sender \in Accounts, idA \in KittyIds, idB \in KittyIds,
        selector \in RandomValues :
       \A r \in {breed(Current, sender, idA, idB, selector)} :
         r.result = "Ok" =>
           /\ kittiesCount + 1 <= MaxKittyId
           /\ r.st.count = kittiesCount + 1
           /\ r.st.kitties[MaxKittyId] = None

\* the count has reached the maximum, the id below it is the last one given
\* out, and a create has been refused there
C18_Witness ==
  /\ last.op = "create"
  /\ last.result = "KittiesCountOverflow"
  /\ kittiesCount = MaxKittyId
  /\ kitties[MaxKittyId - 1] # None
  /\ kitties[MaxKittyId] = None

\* ---------------------------------------------------------------- C19
\* C19: in create, breed and transfer every check that can return an error
\* comes before the first write or delete of the call, so a call that returns
\* an error returns with the kitties, the count and every sentinel and node
\* as they were when it was called, no rollback being needed.
C19_ErrorsBeforeWrites ==
  /\ \A sender \in Accounts, dna \in RandomValues :
       \A r \in {create(Current, sender, dna)} :
         r.result # "Ok" => r.st = Current
  /\ \A sender \in Accounts, idA \in KittyIds, idB \in KittyIds,
        selector \in RandomValues :
       \A r \in {breed(Current, sender, idA, idB, selector)} :
         r.result # "Ok" => r.st = Current
  /\ \A sender \in Accounts, to \in Accounts, id \in KittyIds :
       \A r \in {transfer(Current, sender, to, id)} :
         r.result # "Ok" => r.st = Current

\* ---------------------------------------------------------------- C20
\* C20: in every state reachable by create, breed and transfer, every id that
\* has a node (O, Some(id)), and every id that is the prev or the next of a
\* stored node or sentinel of O, has a kitty stored (id < KittiesCount) and a
\* node stored under that same O.
C20_ListsReferToStoredKitties ==
  \A o \in Accounts, key \in OptionKittyId :
    owned[<<o, key>>] # None =>
      /\ key # None => (key[1] < kittiesCount /\ kitties[key[1]] # None)
      /\ \A p \in {owned[<<o, key>>][1].prev, owned[<<o, key>>][1].next} :
           p # None =>
             /\ p[1] < kittiesCount
             /\ kitties[p[1]] # None
             /\ owned[<<o, p>>] # None

====
